---------------------------- MODULE Spec2Model ----------------------------
(***************************************************************************)
(* Configuration management of AETB (aetb/config.py): the Config manager   *)
(* that loads config.json, falls back to hardcoded defaults, optionally    *)
(* initialises Firebase, and the pydantic schemas TradingConfig and        *)
(* EvolutionConfig.                                                        *)
(*                                                                         *)
(* Python floats are represented exactly as integers counting hundredths:  *)
(* Float(w, h) is the float w + h/100.  Python ints are plain integers.    *)
(***************************************************************************)
EXTENDS Integers, Sequences, FiniteSets, TLC

VARIABLES
    pc,                    \* position inside Config.__init__
    _config_cache,         \* self._config_cache
    _firebase_initialized, \* self._firebase_initialized
    firebase_creds_path,   \* the argument of __init__
    file,                  \* the file system entry at self.config_path
    log,                   \* the records emitted through self.logger
    exc,                   \* the exception propagating out of __init__, if any
    env,                   \* how the file system and Firebase answer this construction
    file0,                 \* the entry at config_path when __init__ was entered
    writes,                \* number of open(config_path, 'w') calls of this construction
    constructions,         \* number of Config objects constructed so far
    call,                  \* a schema constructor call: class and keyword arguments
    result                 \* what the schema constructor call produced

vars == <<pc, _config_cache, _firebase_initialized, firebase_creds_path, file,
          log, exc, env, file0, writes, constructions, call, result>>

configVars == <<pc, _config_cache, _firebase_initialized, firebase_creds_path,
                file, log, exc, env, file0, writes, constructions>>

schemaVars == <<call, result>>

\* Number of Config objects constructed one after the other on the same path.
MaxConstructions == 2

Float(w, h) == w * 100 + h

Range(s) == {s[i] : i \in DOMAIN s}

Restrict(f, S) == [k \in S |-> f[k]]

(***************************************************************************)
(* Values                                                                  *)
(***************************************************************************)

\* {} : the empty dict of line 46
EmptyDict == <<>>

NoException == "none"

NoneValue == "None"

\* The dict literal of _create_default_config.
DefaultConfig ==
    [trading   |-> [exchange        |-> "binance",
                    symbol          |-> "BTC/USDT",
                    timeframe       |-> "1h",
                    initial_capital |-> Float(10000, 0)],
     evolution |-> [population_size |-> 50,
                    generations     |-> 100,
                    mutation_rate   |-> Float(0, 10),
                    crossover_rate  |-> Float(0, 70),
                    elite_count     |-> 5],
     risk      |-> [max_position_size |-> Float(0, 10),
                    stop_loss_pct     |-> Float(0, 2),
                    take_profit_pct   |-> Float(0, 5),
                    max_daily_loss    |-> Float(0, 3)]]

\* A user-edited configuration that differs from the defaults in every section.
CustomConfig ==
    [trading   |-> [exchange        |-> "kraken",
                    symbol          |-> "ETH/USDT",
                    timeframe       |-> "4h",
                    initial_capital |-> Float(2500, 50)],
     evolution |-> [population_size |-> 20,
                    generations     |-> 10,
                    mutation_rate   |-> Float(1, 0),
                    crossover_rate  |-> Float(0, 0),
                    elite_count     |-> 0],
     risk      |-> [max_position_size |-> Float(0, 25),
                    stop_loss_pct     |-> Float(0, 1),
                    take_profit_pct   |-> Float(0, 10),
                    max_daily_loss    |-> Float(0, 5)]]

\* JSON documents a config.json may hold.
Documents ==
    { DefaultConfig,
      CustomConfig,
      Restrict(CustomConfig, {"trading", "evolution"}),
      Restrict(CustomConfig, {"risk"}),
      [trading |-> [exchange |-> "kraken"]],
      [CustomConfig EXCEPT !.trading.exchange = "ftx"],
      [CustomConfig EXCEPT !.trading.initial_capital = Float(0, 0)],
      [CustomConfig EXCEPT !.evolution.mutation_rate = Float(1, 50)],
      [CustomConfig EXCEPT !.evolution.population_size = 0],
      EmptyDict }

(***************************************************************************)
(* The file system entry at config_path and the json module                *)
(***************************************************************************)

\* The text json.dump(obj, f, indent=2) writes.
json_dump(obj) == [kind |-> "json", value |-> obj]

\* A text that is no JSON document.
Garbage == [kind |-> "garbage", value |-> EmptyDict]

\* What is left of a file opened with 'w' whose write then failed.
Truncated == [kind |-> "truncated", value |-> EmptyDict]

NoFile == [exists |-> FALSE, text |-> Garbage]

FileWith(text) == [exists |-> TRUE, text |-> text]

\* json.load(f): the parsed document, or JSONDecodeError.
json_load(text) ==
    IF text.kind = "json"
    THEN [raised |-> NoException, value |-> text.value]
    ELSE [raised |-> "JSONDecodeError", value |-> EmptyDict]

Files == {NoFile, FileWith(Garbage)} \cup {FileWith(json_dump(d)) : d \in Documents}

\* Which call on config_path fails with OSError in this construction.
ReadFaults == {"none", "open", "read"}

WriteFaults == {"none", "open", "write"}

FirebaseFaults == {"none", "Certificate", "initialize_app"}

CredsPaths == {NoneValue, "", "creds.json"}

Envs == [read_fault : ReadFaults, write_fault : WriteFaults,
         creds_exists : BOOLEAN, firebase_fault : FirebaseFaults]

NoEnv == [read_fault |-> "none", write_fault |-> "none",
          creds_exists |-> FALSE, firebase_fault |-> "none"]

(***************************************************************************)
(* Config                                                                  *)
(***************************************************************************)

\* The part of the state a method of Config reads and writes.
Self == [cache |-> _config_cache, file |-> file, log |-> log,
         writes |-> writes, exc |-> exc, fb |-> _firebase_initialized]

Logged(st, msg) == [st EXCEPT !.log = Append(@, msg)]

\* with open(self.config_path, 'w') as f: json.dump(self._config_cache, f, indent=2)
write_config(st, e) ==
    LET opened == [st EXCEPT !.writes = @ + 1]
    IN  CASE e.write_fault = "open"  -> [opened EXCEPT !.exc = "OSError"]
          [] e.write_fault = "write" ->
                 [opened EXCEPT !.file = FileWith(Truncated), !.exc = "OSError"]
          [] OTHER ->
                 [opened EXCEPT !.file = FileWith(json_dump(opened.cache))]

\* Mutant: the defaults are dumped before they are assigned to the cache.
_create_default_config_dump_first(st, e) ==
    LET written  == write_config(st, e)
        assigned == [written EXCEPT !.cache = DefaultConfig]
    IN  IF assigned.exc = NoException
        THEN Logged(assigned, "Created default config")
        ELSE Logged([assigned EXCEPT !.exc = NoException],
                    "Failed to save default config")

\* Mutant: the write is not wrapped in try/except.
_create_default_config_unguarded(st, e) ==
    LET assigned == [st EXCEPT !.cache = DefaultConfig]
        written  == write_config(assigned, e)
    IN  IF written.exc = NoException
        THEN Logged(written, "Created default config")
        ELSE written

_create_default_config(st, e) ==
    LET assigned == [st EXCEPT !.cache = DefaultConfig]
        written  == write_config(assigned, e)
    IN  IF written.exc = NoException
        THEN Logged(written, "Created default config")
        ELSE Logged([written EXCEPT !.exc = NoException],
                    "Failed to save default config")

\* Mutant: the parsed document is merged over the defaults.
read_config_merged(st, e) ==
    LET parsed == json_load(st.file.text)
        merged == [k \in DOMAIN DefaultConfig \cup DOMAIN parsed.value |->
                      IF k \in DOMAIN parsed.value THEN parsed.value[k]
                      ELSE DefaultConfig[k]]
    IN  CASE e.read_fault # "none"         -> [st EXCEPT !.exc = "OSError"]
          [] parsed.raised # NoException   -> [st EXCEPT !.exc = parsed.raised]
          [] OTHER                         -> [st EXCEPT !.cache = merged]

\* with open(self.config_path, 'r') as f: self._config_cache = json.load(f)
read_config(st, e) ==
    LET parsed == json_load(st.file.text)
    IN  CASE e.read_fault # "none"         -> [st EXCEPT !.exc = "OSError"]
          [] parsed.raised # NoException   -> [st EXCEPT !.exc = parsed.raised]
          [] OTHER                         -> [st EXCEPT !.cache = parsed.value]

\* Mutant: a loaded configuration is saved back to config_path.
load_try_saving(st, e) ==
    IF st.file.exists
    THEN LET rd == read_config(st, e)
         IN  IF rd.exc = NoException
             THEN write_config(Logged(rd, "Loaded config"), e)
             ELSE rd
    ELSE _create_default_config(st, e)

\* The try block of _load_local_config.
load_try(st, e) ==
    IF st.file.exists
    THEN LET rd == read_config(st, e)
         IN  IF rd.exc = NoException THEN Logged(rd, "Loaded config") ELSE rd
    ELSE _create_default_config(st, e)

\* Mutant: the handler catches json.JSONDecodeError instead of Exception.
_load_local_config_narrow(st, e) ==
    LET tried == load_try(st, e)
    IN  IF tried.exc # "JSONDecodeError"
        THEN tried
        ELSE _create_default_config(
                 Logged([tried EXCEPT !.exc = NoException], "Failed to load config"), e)

_load_local_config(st, e) ==
    LET tried == load_try(st, e)
    IN  IF tried.exc = NoException
        THEN tried
        ELSE _create_default_config(
                 Logged([tried EXCEPT !.exc = NoException], "Failed to load config"), e)

\* Mutant: the flag is set before the calls and not reset by the handler.
_init_firebase_flag_first(st, e) ==
    IF e.firebase_fault = "none"
    THEN Logged([st EXCEPT !.fb = TRUE], "Firebase initialized successfully")
    ELSE [Logged(st, "Failed to initialize Firebase") EXCEPT !.fb = TRUE]

\* Mutant: a failed initialisation falls back to the default configuration.
_init_firebase_resetting(st, e) ==
    IF e.firebase_fault = "none"
    THEN Logged([st EXCEPT !.fb = TRUE], "Firebase initialized successfully")
    ELSE [_create_default_config(Logged(st, "Failed to initialize Firebase"), e)
              EXCEPT !.fb = FALSE]

_init_firebase(st, e) ==
    IF e.firebase_fault = "none"
    THEN Logged([st EXCEPT !.fb = TRUE], "Firebase initialized successfully")
    ELSE [Logged(st, "Failed to initialize Firebase") EXCEPT !.fb = FALSE]

\* os.path.exists(firebase_creds_path)
creds_path_exists(p, e) == p \notin {NoneValue, ""} /\ e.creds_exists

\* if firebase_creds_path and os.path.exists(firebase_creds_path)
firebase_guard(p, e) == p \notin {NoneValue, ""} /\ creds_path_exists(p, e)

Assign(st) ==
    /\ _config_cache' = st.cache
    /\ file' = st.file
    /\ log' = st.log
    /\ writes' = st.writes
    /\ exc' = st.exc
    /\ _firebase_initialized' = st.fb

\* After a step: the exception leaves __init__, or execution goes on at `next`.
Goto(st, next) == pc' = IF st.exc = NoException THEN next ELSE "raised"

\* Config(config_path, firebase_creds_path) is called: lines 44-47.
Config_init ==
    /\ pc = "idle"
    /\ constructions < MaxConstructions
    /\ constructions' = constructions + 1
    /\ \E p \in CredsPaths, e \in Envs :
          /\ firebase_creds_path' = p
          /\ env' = e
    /\ _config_cache' = EmptyDict
    /\ _firebase_initialized' = FALSE
    /\ log' = <<>>
    /\ exc' = NoException
    /\ writes' = 0
    /\ file0' = file
    /\ pc' = "load"
    /\ UNCHANGED <<file, schemaVars>>

\* line 50
LoadLocalConfig ==
    /\ pc = "load"
    /\ LET st == _load_local_config(Self, env)
       IN  Assign(st) /\ Goto(st, "remote")
    /\ UNCHANGED <<firebase_creds_path, env, file0, constructions, schemaVars>>

\* lines 53-54, the guard holds
InitFirebase ==
    /\ pc = "remote"
    /\ firebase_guard(firebase_creds_path, env)
    /\ LET st == _init_firebase(Self, env)
       IN  Assign(st) /\ Goto(st, "done")
    /\ UNCHANGED <<firebase_creds_path, env, file0, constructions, schemaVars>>

\* lines 53-54, the guard fails
SkipFirebase ==
    /\ pc = "remote"
    /\ ~firebase_guard(firebase_creds_path, env)
    /\ pc' = "done"
    /\ UNCHANGED <<_config_cache, _firebase_initialized, firebase_creds_path, file,
                   log, exc, env, file0, writes, constructions, schemaVars>>

\* The constructor has returned; the process may construct another Config.
Return ==
    /\ pc = "done"
    /\ pc' = "idle"
    /\ UNCHANGED <<_config_cache, _firebase_initialized, firebase_creds_path, file,
                   log, exc, env, file0, writes, constructions, schemaVars>>

NoCall == [cls |-> "none", kwargs |-> EmptyDict]

NoResult == [raised |-> NoException, value |-> EmptyDict, errors |-> {}]

Init ==
    /\ pc = "idle"
    /\ _config_cache = EmptyDict
    /\ _firebase_initialized = FALSE
    /\ firebase_creds_path = NoneValue
    /\ file \in Files
    /\ log = <<>>
    /\ exc = NoException
    /\ env = NoEnv
    /\ file0 = file
    /\ writes = 0
    /\ constructions = 0
    /\ call = NoCall
    /\ result = NoResult

Next ==
    \/ Config_init
    \/ LoadLocalConfig
    \/ InitFirebase
    \/ SkipFirebase
    \/ Return

Spec == Init /\ [][Next]_vars

(***************************************************************************)
(* The pydantic schemas                                                    *)
(***************************************************************************)

\* A field given as a keyword argument is validated; an absent one takes its default.
Given(kw, f) == f \in DOMAIN kw

FieldValue(kw, f, default) == IF Given(kw, f) THEN kw[f] ELSE default

valid_exchanges == {"binance", "coinbase", "kraken", "bybit"}

\* Mutant: the allow-list lacks its last entry.
validate_exchange_short(v) == v \in {"binance", "coinbase", "kraken"}

\* @validator('exchange'): TRUE when it returns v, FALSE when it raises ValueError.
validate_exchange(v) == v \in valid_exchanges

\* Field(default=10000.0, gt=0)
initial_capital_field(v) == v > Float(0, 0)

\* Field(default=50, gt=0)
population_size_field(v) == v > 0

\* Field(default=100, gt=0)
generations_field(v) == v > 0

\* Mutant: lt=1 instead of le=1.
mutation_rate_field_lt(v) == v >= Float(0, 0) /\ v < Float(1, 0)

\* Field(default=0.1, ge=0, le=1)
mutation_rate_field(v) == v >= Float(0, 0) /\ v <= Float(1, 0)

\* Field(default=0.7, ge=0, le=1)
crossover_rate_field(v) == v >= Float(0, 0) /\ v <= Float(1, 0)

\* Field(default=5, ge=0)
elite_count_field(v) == v >= 0

\* BaseModel.__init__: the model's fields, or ValidationError naming the failing fields.
Validated(value, errors) ==
    IF errors = {}
    THEN [raised |-> NoException, value |-> value, errors |-> {}]
    ELSE [raised |-> "ValidationError", value |-> EmptyDict, errors |-> errors]

TradingConfig(kw) ==
    LET value == [exchange        |-> FieldValue(kw, "exchange", "binance"),
                  symbol          |-> FieldValue(kw, "symbol", "BTC/USDT"),
                  timeframe       |-> FieldValue(kw, "timeframe", "1h"),
                  initial_capital |-> FieldValue(kw, "initial_capital", Float(10000, 0))]
        errors ==
            {f \in {"exchange"} : Given(kw, f) /\ ~validate_exchange(kw[f])}
            \cup {f \in {"initial_capital"} : Given(kw, f) /\ ~initial_capital_field(kw[f])}
    IN  Validated(value, errors)

EvolutionConfig(kw) ==
    LET value == [population_size |-> FieldValue(kw, "population_size", 50),
                  generations     |-> FieldValue(kw, "generations", 100),
                  mutation_rate   |-> FieldValue(kw, "mutation_rate", Float(0, 10)),
                  crossover_rate  |-> FieldValue(kw, "crossover_rate", Float(0, 70)),
                  elite_count     |-> FieldValue(kw, "elite_count", 5)]
        errors ==
            {f \in {"population_size"} : Given(kw, f) /\ ~population_size_field(kw[f])}
            \cup {f \in {"generations"} : Given(kw, f) /\ ~generations_field(kw[f])}
            \cup {f \in {"mutation_rate"} : Given(kw, f) /\ ~mutation_rate_field(kw[f])}
            \cup {f \in {"crossover_rate"} : Given(kw, f) /\ ~crossover_rate_field(kw[f])}
            \cup {f \in {"elite_count"} : Given(kw, f) /\ ~elite_count_field(kw[f])}
    IN  Validated(value, errors)

TradingFields == {"exchange", "symbol", "timeframe", "initial_capital"}

TradingRecords ==
    [exchange : valid_exchanges \cup {"ftx", "Binance", ""},
     symbol : {"ETH/USDT"},
     timeframe : {"4h"},
     initial_capital : {-Float(1, 0), Float(0, 0), Float(0, 1), Float(2500, 50)}]

TradingInputs == {Restrict(r, S) : r \in TradingRecords, S \in SUBSET TradingFields}

EvolutionFields ==
    {"population_size", "generations", "mutation_rate", "crossover_rate", "elite_count"}

EvolutionRecords ==
    [population_size : {-1, 0, 1, 20},
     generations : {-1, 0, 1},
     mutation_rate : {-Float(0, 1), Float(0, 0), Float(0, 50), Float(1, 0),
                      Float(1, 1), Float(1, 50)},
     crossover_rate : {-Float(0, 1), Float(0, 0), Float(0, 70), Float(1, 0), Float(1, 1)},
     elite_count : {-1, 0, 3}]

EvolutionInputs == {Restrict(r, S) : r \in EvolutionRecords, S \in SUBSET EvolutionFields}

\* TradingConfig(**kwargs)
NewTradingConfig ==
    /\ call.cls = "TradingConfig"
    /\ result = NoResult
    /\ result' = TradingConfig(call.kwargs)
    /\ UNCHANGED <<call, configVars>>

\* EvolutionConfig(**kwargs)
NewEvolutionConfig ==
    /\ call.cls = "EvolutionConfig"
    /\ result = NoResult
    /\ result' = EvolutionConfig(call.kwargs)
    /\ UNCHANGED <<call, configVars>>

InitSchema ==
    /\ pc = "idle"
    /\ _config_cache = EmptyDict
    /\ _firebase_initialized = FALSE
    /\ firebase_creds_path = NoneValue
    /\ file = NoFile
    /\ log = <<>>
    /\ exc = NoException
    /\ env = NoEnv
    /\ file0 = file
    /\ writes = 0
    /\ constructions = 0
    /\ call \in {[cls |-> "TradingConfig", kwargs |-> k] : k \in TradingInputs}
                \cup {[cls |-> "EvolutionConfig", kwargs |-> k] : k \in EvolutionInputs}
    /\ result = NoResult

NextSchema ==
    \/ NewTradingConfig
    \/ NewEvolutionConfig

SpecSchema == InitSchema /\ [][NextSchema]_vars

(***************************************************************************)
(* Properties                                                              *)
(***************************************************************************)

\* _load_local_config has returned for the Config under construction or last constructed.
Loaded == pc \in {"remote", "done"} \/ (pc = "idle" /\ constructions > 0)

\* __init__ has returned.
Constructed == pc = "done"

\* The file found at config_path exists, reads and parses.
ReadsWell ==
    /\ file0.exists
    /\ env.read_fault = "none"
    /\ file0.text.kind = "json"

\* The file found at config_path exists and reading or parsing it fails.
ReadFails == file0.exists /\ ~ReadsWell

LoadedFromFile == "Loaded config" \in Range(log)

LoadedFromDefaults ==
    \/ "Created default config" \in Range(log)
    \/ "Failed to save default config" \in Range(log)

LoadState ==
    CASE LoadedFromFile /\ ~LoadedFromDefaults -> "loaded-from-file"
      [] LoadedFromDefaults /\ ~LoadedFromFile -> "loaded-from-defaults"
      [] ~LoadedFromFile /\ ~LoadedFromDefaults -> "unloaded"
      [] OTHER -> "both"

\* C1: when the file at config_path exists, reads and parses, the constructed
\* Config's cache equals the document the file holds: same keys, same values,
\* nothing added from the defaults.
C1_CacheEqualsFile ==
    (Loaded /\ ReadsWell) =>
        /\ DOMAIN _config_cache = DOMAIN file0.text.value
        /\ \A k \in DOMAIN file0.text.value : _config_cache[k] = file0.text.value[k]

\* A file holding only the risk section was loaded, and the cache holds only that.
C1_Witness ==
    /\ Constructed
    /\ ReadsWell
    /\ file0.text.value = Restrict(CustomConfig, {"risk"})
    /\ DOMAIN _config_cache = {"risk"}

\* C2 as claimed: when no file exists at config_path, the constructed Config's
\* cache equals the defaults and config_path then holds a file with the defaults.
C2_DefaultsAlwaysPersisted ==
    (Constructed /\ ~file0.exists) =>
        /\ _config_cache = DefaultConfig
        /\ file.exists
        /\ json_load(file.text) = [raised |-> NoException, value |-> DefaultConfig]

\* C2 amended: when no file exists at config_path, the constructed Config's cache
\* equals the defaults for all three sections, and when the write of the defaults
\* succeeds config_path then holds a file whose contents are those defaults.
C2_DefaultsPersistedWhenWritten ==
    (Constructed /\ ~file0.exists) =>
        /\ _config_cache = DefaultConfig
        /\ DOMAIN _config_cache = {"trading", "evolution", "risk"}
        /\ env.write_fault = "none" =>
              /\ file.exists
              /\ json_load(file.text) = [raised |-> NoException, value |-> DefaultConfig]

\* No file was found, the write succeeded and the file now holds the defaults.
C2_Witness ==
    /\ Constructed
    /\ ~file0.exists
    /\ env.write_fault = "none"
    /\ file = FileWith(json_dump(DefaultConfig))
    /\ _config_cache = DefaultConfig

\* C3: no exception leaves the load; when reading or parsing an existing file
\* fails the cache ends equal to the full defaults; and a finished load is in
\* exactly one of loaded-from-file and loaded-from-defaults.
C3_LoadFailureFallsBack ==
    /\ pc # "raised"
    /\ exc = NoException
    /\ Loaded =>
          /\ LoadState \in {"loaded-from-file", "loaded-from-defaults"}
          /\ ReadFails => (_config_cache = DefaultConfig /\ LoadState = "loaded-from-defaults")

\* A file of malformed JSON was found and the Config was constructed on the defaults.
C3_Witness ==
    /\ Constructed
    /\ file0 = FileWith(Garbage)
    /\ env.read_fault = "none"
    /\ "Failed to load config" \in Range(log)
    /\ _config_cache = DefaultConfig

\* The trading and evolution sections of a configuration satisfy their schemas.
SectionsValid(config) ==
    /\ "trading" \in DOMAIN config =>
          TradingConfig(config["trading"]).raised = NoException
    /\ "evolution" \in DOMAIN config =>
          EvolutionConfig(config["evolution"]).raised = NoException

\* C4 as claimed: a constructed Config either holds a configuration whose trading
\* and evolution sections pass TradingConfig and EvolutionConfig, or has
\* reported a validation error.
C4_LoadedConfigValidated ==
    Loaded => (SectionsValid(_config_cache) \/ exc = "ValidationError")

\* C5: a failing write of the defaults raises nothing, leaves the cache equal to
\* the full defaults, and is attempted once.
C5_WriteFailureNonFatal ==
    /\ pc # "raised"
    /\ (writes > 0 /\ env.write_fault # "none") =>
          /\ exc = NoException
          /\ Loaded
          /\ _config_cache = DefaultConfig
          /\ writes = 1
          /\ Len(SelectSeq(log, LAMBDA m : m = "Failed to save default config")) = 1
          /\ "Created default config" \notin Range(log)

\* The write of the defaults failed half way and the Config was constructed.
C5_Witness ==
    /\ Constructed
    /\ env.write_fault = "write"
    /\ writes = 1
    /\ file = FileWith(Truncated)
    /\ _config_cache = DefaultConfig

\* C6: a constructed Config is remote-connected exactly when a credentials path
\* was supplied, the path exists and the Firebase initialisation succeeded; and
\* construction never throws.
C6_RemoteConnectedIff ==
    /\ pc # "raised"
    /\ (Constructed \/ (pc = "idle" /\ constructions > 0)) =>
          (_firebase_initialized <=>
              /\ firebase_creds_path # NoneValue
              /\ creds_path_exists(firebase_creds_path, env)
              /\ env.firebase_fault = "none")
    /\ pc \in {"load", "remote"} => ~_firebase_initialized

\* An existing credentials path was supplied and the initialisation failed.
C6_Witness ==
    /\ Constructed
    /\ firebase_creds_path = "creds.json"
    /\ env.creds_exists
    /\ env.firebase_fault = "initialize_app"
    /\ ~_firebase_initialized
    /\ "Failed to initialize Firebase" \in Range(log)

FirebaseAttempted(l) ==
    \/ "Firebase initialized successfully" \in Range(l)
    \/ "Failed to initialize Firebase" \in Range(l)

\* C7: Firebase initialisation is attempted only after the local load has
\* completed, and the step from the load to the end of construction changes
\* neither the cache, the file at config_path nor the load state.
C7_RemoteLeavesLoadState ==
    [][ /\ pc = "remote" =>
              /\ _config_cache' = _config_cache
              /\ file' = file
              /\ writes' = writes
              /\ LoadState' = LoadState
        /\ (FirebaseAttempted(log') /\ ~FirebaseAttempted(log)) =>
              /\ pc = "remote"
              /\ LoadState \in {"loaded-from-file", "loaded-from-defaults"}
      ]_vars

\* A Config loaded from its file went through a failed Firebase initialisation.
C7_Witness ==
    /\ Constructed
    /\ "Failed to initialize Firebase" \in Range(log)
    /\ LoadState = "loaded-from-file"
    /\ _config_cache = CustomConfig
    /\ file = file0

\* The schema constructor call has returned or raised.
Called == result # NoResult

\* C8: TradingConfig(**kwargs) succeeds exactly when the exchange (given or
\* default) is binance, coinbase, kraken or bybit and the initial capital (given
\* or default) is greater than 0; otherwise it raises ValidationError and yields
\* no object.
C8_TradingValidIff ==
    (call.cls = "TradingConfig" /\ Called) =>
        LET kw == call.kwargs
            exchange == IF "exchange" \in DOMAIN kw THEN kw.exchange ELSE "binance"
            capital  == IF "initial_capital" \in DOMAIN kw THEN kw.initial_capital
                        ELSE Float(10000, 0)
            valid    == /\ exchange \in {"binance", "coinbase", "kraken", "bybit"}
                        /\ capital > Float(0, 0)
        IN  /\ valid => /\ result.raised = NoException
                        /\ result.value.exchange = exchange
                        /\ result.value.initial_capital = capital
            /\ ~valid => /\ result.raised = "ValidationError"
                         /\ result.value = EmptyDict
                         /\ result.errors # {}

\* An exchange outside the allow-list was rejected.
C8_Witness ==
    /\ call = [cls |-> "TradingConfig", kwargs |-> [exchange |-> "ftx"]]
    /\ result.raised = "ValidationError"
    /\ result.errors = {"exchange"}

\* C9: EvolutionConfig(**kwargs) succeeds exactly when population_size > 0,
\* generations > 0, 0 <= mutation_rate <= 1, 0 <= crossover_rate <= 1 and
\* elite_count >= 0 (given or default values); otherwise it raises ValidationError.
C9_EvolutionValidIff ==
    (call.cls = "EvolutionConfig" /\ Called) =>
        LET kw == call.kwargs
            Arg(f, d) == IF f \in DOMAIN kw THEN kw[f] ELSE d
            valid == /\ Arg("population_size", 50) > 0
                     /\ Arg("generations", 100) > 0
                     /\ Arg("mutation_rate", Float(0, 10)) >= Float(0, 0)
                     /\ Arg("mutation_rate", Float(0, 10)) <= Float(1, 0)
                     /\ Arg("crossover_rate", Float(0, 70)) >= Float(0, 0)
                     /\ Arg("crossover_rate", Float(0, 70)) <= Float(1, 0)
                     /\ Arg("elite_count", 5) >= 0
        IN  /\ valid => /\ result.raised = NoException
                        /\ result.value.mutation_rate = Arg("mutation_rate", Float(0, 10))
            /\ ~valid => /\ result.raised = "ValidationError"
                         /\ result.value = EmptyDict

\* A mutation rate of 1.5 was rejected.
C9_Witness ==
    /\ call = [cls |-> "EvolutionConfig", kwargs |-> [mutation_rate |-> Float(1, 50)]]
    /\ result.raised = "ValidationError"
    /\ result.errors = {"mutation_rate"}

\* C10: the file at config_path is opened for writing at most once per
\* construction and only on the fallback path: a file that loads is left as it
\* was, and a file that fails to read or parse is replaced by the defaults when
\* the write succeeds.
C10_FileWrittenOnlyOnFallback ==
    /\ writes <= 1
    /\ writes = 0 => file = file0
    /\ file # file0 => LoadState = "loaded-from-defaults"
    /\ Loaded =>
          /\ ReadsWell => (file = file0 /\ writes = 0)
          /\ (ReadFails /\ env.write_fault = "none") =>
                (file = FileWith(json_dump(DefaultConfig)) /\ writes = 1)

\* A parseable file could not be read and was replaced by the defaults.
C10_Witness ==
    /\ Constructed
    /\ file0 = FileWith(json_dump(CustomConfig))
    /\ env.read_fault = "read"
    /\ env.write_fault = "none"
    /\ file = FileWith(json_dump(DefaultConfig))
    /\ writes = 1

=============================================================================
